---- MODULE Spec2Model ----
(***************************************************************************)
(* Whisper transcription server (src/whisper-server): the request         *)
(* pipeline of server.py, the decode chain and the normaliser of          *)
(* utils/audio_processor.py and the model life cycle of                   *)
(* utils/model_manager.py, as a state machine.                            *)
(*                                                                         *)
(* Three specifications share the state:                                  *)
(*   Spec      the threaded Flask server handling requests,               *)
(*   SpecLoad  AudioProcessor.load_audio called directly on a file,       *)
(*   SpecPre   AudioProcessor.preprocess_audio called directly.           *)
(***************************************************************************)
EXTENDS Integers, Sequences, FiniteSets, TLC

(***************************************************************************)
(* Bounds of the model.                                                    *)
(***************************************************************************)
\* longest waveform (frames per channel) given to preprocess_audio
MaxFrames == 2
\* requests the server accepts in one run
MaxRequests == 2
\* direct load_audio calls in one run of SpecLoad
MaxLoadCalls == 2

(***************************************************************************)
(* Program constants.                                                      *)
(***************************************************************************)
\* Config.TARGET_SAMPLE_RATE, handed to AudioProcessor(...)
TARGET_SAMPLE_RATE == 16000

(***************************************************************************)
(* Amplitudes.  A sample is an exact rational <<n, d>>, d > 0, in lowest   *)
(* terms, so that equal amplitudes are equal values.  The two facts of     *)
(* floating-point division the normaliser relies on are exact here as they *)
(* are in IEEE arithmetic: x / x = 1 and x / 1 = x.                        *)
(***************************************************************************)
AbsInt(n) == IF n < 0 THEN -n ELSE n

RECURSIVE GCD(_, _)
GCD(a, b) == IF b = 0 THEN a ELSE GCD(b, a % b)

Rat(n, d) == LET g == GCD(AbsInt(n), d) IN <<n \div g, d \div g>>

RZero == <<0, 1>>
ROne == <<1, 1>>
RAdd(a, b) == Rat(a[1] * b[2] + b[1] * a[2], a[2] * b[2])
RAbs(a) == <<AbsInt(a[1]), a[2]>>
RLess(a, b) == a[1] * b[2] < b[1] * a[2]
\* a / b for b >= 0; as in floating point, a division by zero does not raise:
\* it yields a value that is no amplitude (NaN or infinity)
NotANumber == <<0, 0>>
RDiv(a, b) == IF b[1] = 0 THEN NotANumber ELSE Rat(a[1] * b[2], a[2] * b[1])
\* a / k for an integer k > 0
RDivInt(a, k) == Rat(a[1], a[2] * k)

RECURSIVE RSum(_)
RSum(s) == IF s = <<>> THEN RZero ELSE RAdd(s[1], RSum(Tail(s)))

(***************************************************************************)
(* Waveforms.  A torch tensor of shape (channels, frames) is a sequence of *)
(* channels, each a sequence of samples of the same length.                *)
(***************************************************************************)
Channels(w) == Len(w)
Frames(w) == IF Len(w) = 0 THEN 0 ELSE Len(w[1])
Numel(w) == Channels(w) * Frames(w)
SamplesOf(w) == {w[c][i] : c \in 1..Channels(w), i \in 1..Frames(w)}
AllZero(w) == \A x \in SamplesOf(w) : x = RZero

\* torch.mean(waveform, dim=0, keepdim=True)
MeanChannels(w) ==
    << [i \in 1..Frames(w) |->
          RDivInt(RSum([c \in 1..Channels(w) |-> w[c][i]]), Channels(w))] >>

\* the mutation of MaxAbs that forgets torch.abs
MaxNoAbs(w) ==
    LET all == SamplesOf(w)
    IN  CHOOSE m \in all : \A x \in all : ~RLess(m, x)

\* torch.max(torch.abs(waveform)) of a tensor with at least one element
MaxAbs(w) ==
    LET abs == {RAbs(x) : x \in SamplesOf(w)}
    IN  CHOOSE m \in abs : \A x \in abs : ~RLess(m, x)

\* waveform / max_val
DivideBy(w, p) == [c \in 1..Channels(w) |-> [i \in 1..Frames(w) |-> RDiv(w[c][i], p)]]

\* ceil(a / b) for a >= 0, b > 0
CeilDiv(a, b) == (a + b - 1) \div b

\* torchaudio.transforms.Resample: the length of its output
ResampleLen(n, orig_freq) == CeilDiv(TARGET_SAMPLE_RATE * n, orig_freq)

\* tensor.squeeze(): every dimension of size 1 is dropped, the data is kept
RECURSIVE Flatten(_)
Flatten(w) == IF w = <<>> THEN <<>> ELSE w[1] \o Flatten(Tail(w))

Squeeze(w) ==
    [shape   |-> SelectSeq(<<Channels(w), Frames(w)>>, LAMBDA d : d # 1),
     samples |-> Flatten(w)]

\* result.numel()
NumelOfShape(shape) ==
    IF shape = <<>> THEN 1 ELSE IF Len(shape) = 1 THEN shape[1] ELSE shape[1] * shape[2]

(***************************************************************************)
(* torchaudio.transforms.Resample is a library transform.  What the model  *)
(* keeps of it: the output has one channel of ResampleLen frames, the      *)
(* transform is linear (silence stays silence), and its sample values are  *)
(* otherwise free; on a zero-length input it either raises or returns a    *)
(* zero-length output, depending on the library version.                   *)
(***************************************************************************)
ResampleValues == {Rat(-2, 1), RZero, Rat(1, 2)}

ResampleOutcomes(w, orig_freq) ==
    LET m == ResampleLen(Frames(w), orig_freq)
    IN  IF Frames(w) = 0
        THEN {[ok |-> FALSE, wave |-> << <<>> >>], [ok |-> TRUE, wave |-> << <<>> >>]}
        ELSE IF AllZero(w)
        THEN {[ok |-> TRUE, wave |-> << [i \in 1..m |-> RZero] >>]}
        ELSE {[ok |-> TRUE, wave |-> <<s>>] : s \in [1..m -> ResampleValues]}

\* the resampler is not called at all
NoResample == [ok |-> TRUE, wave |-> << <<>> >>]

(***************************************************************************)
(* AudioProcessor.preprocess_audio(waveform, sample_rate).  rs is what the *)
(* resampler does if it is called.  The outcome records what the caller    *)
(* sees (a returned tensor or a raised exception), the warnings logged and *)
(* the transformations applied, in the order they were applied.            *)
(***************************************************************************)
PreRaised(error, steps) ==
    [status |-> "raised", error |-> error, shape |-> <<>>, samples |-> <<>>,
     warnings |-> {}, steps |-> steps]

PreReturned(res, warnings, steps) ==
    [status |-> "returned", error |-> "none", shape |-> res.shape,
     samples |-> res.samples, warnings |-> warnings, steps |-> steps]

\* line 199: max_val > 0, with the mutation that always normalises
IsLoudAlways(max_val) == TRUE
IsLoud(max_val) == RLess(RZero, max_val)

\* lines 197-212: normalise, squeeze, reject an empty result
NormalizeAndSqueeze(w, steps) ==
    IF Numel(w) = 0
    THEN \* torch.max of a tensor without elements raises
         PreRaised("RuntimeError: max of empty tensor", steps)
    ELSE LET max_val == MaxAbs(w)
             loud    == IsLoud(max_val)
             w3      == IF loud THEN DivideBy(w, max_val) ELSE w
             steps3  == IF loud THEN Append(steps, "normalize") ELSE steps
             result  == Squeeze(w3)
         IN  IF NumelOfShape(result.shape) = 0
             THEN PreRaised("ValueError: Processed audio is empty", steps3)
             ELSE PreReturned(result, IF loud THEN {} ELSE {"silent"}, steps3)

\* lines 183-186: convert to mono if there is more than one channel
Mixdown(waveform) ==
    IF Channels(waveform) > 1 THEN MeanChannels(waveform) ELSE waveform

preprocess_audio(waveform, sample_rate, rs) ==
    LET w1     == Mixdown(waveform)
        steps1 == IF Channels(waveform) > 1 THEN <<"mixdown">> ELSE <<>>
    IN  IF sample_rate # TARGET_SAMPLE_RATE
        THEN IF ~rs.ok
             THEN PreRaised("RuntimeError: resample of empty tensor", Append(steps1, "resample"))
             ELSE NormalizeAndSqueeze(rs.wave, Append(steps1, "resample"))
        ELSE NormalizeAndSqueeze(w1, steps1)


(***************************************************************************)
(* Paths and names are sequences of characters (a run of characters that   *)
(* holds neither "." nor "/" nor an upper-case letter may be one element). *)
(***************************************************************************)
UpperLetters == <<"A", "C", "M", "P", "T", "V", "W", "X">>
LowerLetters == <<"a", "c", "m", "p", "t", "v", "w", "x">>

\* str.lower(), character by character
LowerChar(c) ==
    IF \E i \in DOMAIN UpperLetters : UpperLetters[i] = c
    THEN LowerLetters[CHOOSE i \in DOMAIN UpperLetters : UpperLetters[i] = c]
    ELSE c

Lower(s) == [i \in DOMAIN s |-> LowerChar(s[i])]

\* str.rfind(c), 1-based, 0 when absent
LastIndexOf(p, c) ==
    LET hits == {i \in DOMAIN p : p[i] = c}
    IN  IF hits = {} THEN 0 ELSE CHOOSE i \in hits : \A j \in hits : j <= i

\* os.path.splitext(p): the extension starts at the last dot of the last
\* path component, unless that component has only dots before it
SplitExt(p) ==
    LET sepIndex == LastIndexOf(p, "/")
        dotIndex == LastIndexOf(p, ".")
    IN  IF dotIndex > sepIndex /\ \E k \in (sepIndex + 1)..(dotIndex - 1) : p[k] # "."
        THEN <<SubSeq(p, 1, dotIndex - 1), SubSeq(p, dotIndex, Len(p))>>
        ELSE <<p, <<>>>>

ExtM4a == <<".", "m", "4", "a">>
ExtMp4 == <<".", "m", "p", "4">>
ExtAac == <<".", "a", "a", "c">>
ExtWav == <<".", "w", "a", "v">>

\* tempfile.gettempdir()
TempDir == <<"/", "tmp", "/">>

\* the random part of a temporary file's name
TempNames ==
    <<"tmp01", "tmp02", "tmp03", "tmp04", "tmp05", "tmp06", "tmp07", "tmp08",
      "tmp09", "tmp10", "tmp11", "tmp12", "tmp13", "tmp14", "tmp15", "tmp16">>

\* (ReusedTempPath is the mutation that does not look at the existing files.)
ReusedTempPath(existing, suffix) == TempDir \o <<TempNames[1]>> \o suffix

\* tempfile.NamedTemporaryFile(delete=False, suffix=...): a name that no
\* existing file has
FreshTempPath(files, suffix) ==
    LET free == {i \in DOMAIN TempNames : (TempDir \o <<TempNames[i]>> \o suffix) \notin files}
        i    == CHOOSE k \in free : \A j \in free : k <= j
    IN  TempDir \o <<TempNames[i]>> \o suffix

(***************************************************************************)
(* State.                                                                  *)
(***************************************************************************)
VARIABLES
    is_initialized,   \* server.py: the global initialization flag
    is_loaded,        \* ModelManager.is_loaded
    processor,        \* ModelManager.processor: "none" or the thread that set it
    model,            \* ModelManager.model: "none" or the thread that set it
    loadCount,        \* probe: executions of the model's from_pretrained
    initFailures,     \* probe: initialization attempts that raised
    files,            \* the paths that exist on the filesystem
    pc,               \* where each thread is
    req,              \* the request a thread is serving
    temp_file_path,   \* transcribe_audio's local of that name (<<>> is None)
    staged,           \* the file save_temp_audio created for the request, if any
    la,               \* load_audio's frame: path, position, attempts, outcome
    pre,              \* preprocess_audio's arguments and outcome
    resp,             \* the response a thread built
    log,              \* what a request did, in order
    nRequests,        \* requests accepted so far
    nLoadCalls        \* direct load_audio calls so far

vars == <<is_initialized, is_loaded, processor, model, loadCount, initFailures, files, pc, req,
          temp_file_path, staged, la, pre, resp, log, nRequests, nLoadCalls>>

modelVars == <<is_initialized, is_loaded, processor, model, loadCount, initFailures>>

Threads == {"t1", "t2"}

(***************************************************************************)
(* What a decoder can produce from a file: a waveform and its sample rate. *)
(***************************************************************************)
NoAudio == [waveform |-> <<>>, sample_rate |-> 0]

AudioSpeech == [waveform |-> << <<Rat(1, 2), Rat(-1, 4)>> >>, sample_rate |-> 16000]
AudioStereo == [waveform |-> << <<Rat(1, 2), RZero, RZero>>, <<Rat(-2, 1), RZero, RZero>> >>,
                sample_rate |-> 44100]
AudioEmpty  == [waveform |-> << <<>> >>, sample_rate |-> 16000]

DecodedAudios == {AudioSpeech, AudioStereo, AudioEmpty}

\* _load_with_pydub: set_channels(1) makes one channel, the rate is the file's
PydubAudios == {a \in DecodedAudios : Channels(a.waveform) = 1}

\* the converted WAV is mono at the target rate (lines 142 and 157-159)
ConvertedAudios ==
    {a \in DecodedAudios : Channels(a.waveform) = 1 /\ a.sample_rate = TARGET_SAMPLE_RATE}

\* a decoder call either raises or returns one of the audios it can produce
DecodeOutcomes(audios) ==
    {[ok |-> FALSE, audio |-> NoAudio, why |-> "decode error"]}
      \cup {[ok |-> TRUE, audio |-> a, why |-> "loaded"] : a \in audios}

(***************************************************************************)
(* AudioProcessor.load_audio(file_path), one step per decoder call.        *)
(***************************************************************************)
NoError == [message |-> "none", path |-> <<>>]

\* attempts and made are probes: the decoder calls made so far and the
\* intermediate files created so far, kept for a call when probe is set
NoCall ==
    [status |-> "none", path |-> <<>>, next |-> 0, tmp |-> <<>>, audio |-> NoAudio,
     error |-> NoError, probe |-> FALSE, attempts |-> <<>>, made |-> {}]

\* the frame of a call that has just begun (line 23)
LoadAudioFrame(file_path, probe) ==
    [NoCall EXCEPT !.status = "running", !.path = file_path, !.next = 1, !.probe = probe]

\* lines 26-30: the extension test that puts pydub first
M4aFamily == {ExtM4a, ExtMp4, ExtAac}

\* the mutation that compares the extension as it is written
TriesPydubFirstCaseSensitive(file_path) == SplitExt(file_path)[2] \in M4aFamily

TriesPydubFirst(file_path) == SplitExt(Lower(file_path))[2] \in M4aFamily

\* the mutation that gives up before the ffmpeg block
NextMethodWithoutFfmpeg(m) == IF m = 5 THEN 7 ELSE m + 1

\* the try blocks follow each other in the text: methods 1 to 6, then the raise
NextMethod(m) == m + 1

\* line 102
AllMethodsFailed(file_path) ==
    [message |-> "Failed to load audio file. Tried all available methods.", path |-> file_path]

Attempt(m, o) == [method |-> m, ok |-> o.ok, why |-> o.why, audio |-> o.audio]

Attempted(frame, m, o) ==
    IF frame.probe THEN Append(frame.attempts, Attempt(m, o)) ELSE frame.attempts

Made(frame, output_path) ==
    IF frame.probe THEN frame.made \cup {output_path} ELSE frame.made

\* a decoder returned: load_audio returns its result (lines 35, 44, 54, 68, 80, 95)
Returned(frame, m, o) ==
    [frame EXCEPT !.status = "returned", !.audio = o.audio, !.tmp = <<>>,
                  !.attempts = Attempted(frame, m, o)]

\* a decoder raised: the except clause logs a warning and the next block runs
Failed(frame, m, o) ==
    [frame EXCEPT !.next = NextMethod(m), !.tmp = <<>>,
                  !.attempts = Attempted(frame, m, o)]

AfterOutcome(frame, m, o) == IF o.ok THEN Returned(frame, m, o) ELSE Failed(frame, m, o)

\* one step of a call: the frame and the filesystem after it
StepResult(frame, existing) == [frame |-> frame, files |-> existing]

\* Method 1 (lines 29-37)
TryPydub(frame, existing) ==
    IF TriesPydubFirst(frame.path)
    THEN {StepResult(AfterOutcome(frame, 1, o), existing) : o \in DecodeOutcomes(PydubAudios)}
    ELSE {StepResult([frame EXCEPT !.next = NextMethod(1)], existing)}

\* Methods 2, 3, 4 (lines 39-70): torchaudio, librosa, soundfile on the file itself
TryDirect(frame, existing) ==
    {StepResult(AfterOutcome(frame, frame.next, o), existing) :
        o \in DecodeOutcomes(DecodedAudios)}

\* a conversion raised after its output file was created
ConversionFailed(frame, m, why, output_path) ==
    [Failed(frame, m, [ok |-> FALSE, audio |-> NoAudio, why |-> why])
       EXCEPT !.made = Made(frame, output_path)]

\* a conversion returned the path of its output file
Converted(frame, output_path) ==
    [frame EXCEPT !.tmp = output_path, !.made = Made(frame, output_path)]

\* _convert_to_wav_with_pydub (lines 132-148), called at line 75: the output
\* file is created first, then the conversion runs and may raise
ConvertPydub(frame, existing) ==
    LET output_path == FreshTempPath(existing, ExtWav)
    IN  {StepResult(IF converted THEN Converted(frame, output_path)
                    ELSE ConversionFailed(frame, 5, "pydub conversion error", output_path),
                    existing \cup {output_path}) : converted \in BOOLEAN}

\* the converted file is loaded and removed in the finally clause
\* (lines 76-84 for method 5, lines 92-98 for method 6)
LoadConverted(frame, existing) ==
    {StepResult(AfterOutcome(frame, frame.next, o), existing \ {frame.tmp}) :
        o \in DecodeOutcomes(ConvertedAudios)}

\* _convert_with_ffmpeg (lines 150-177), called at line 91: the output file is
\* created first; subprocess.run returns within the timeout or raises
FfmpegResults == {"converted", "exit status not 0", "timed out", "ffmpeg not found"}

ConvertFfmpeg(frame, existing) ==
    LET output_path == FreshTempPath(existing, ExtWav)
    IN  {StepResult(IF r = "converted" THEN Converted(frame, output_path)
                    ELSE ConversionFailed(frame, 6, r, output_path),
                    existing \cup {output_path}) : r \in FfmpegResults}

\* line 102: every block fell through
RaiseAllFailed(frame, existing) ==
    {StepResult([frame EXCEPT !.status = "raised", !.error = AllMethodsFailed(frame.path)],
                existing)}

\* where a running call is
AtPydub(frame) == frame.status = "running" /\ frame.next = 1
AtDirect(frame) == frame.status = "running" /\ frame.next \in {2, 3, 4}
AtConvertPydub(frame) == frame.status = "running" /\ frame.next = 5 /\ frame.tmp = <<>>
AtLoadConverted(frame) == frame.status = "running" /\ frame.next \in {5, 6} /\ frame.tmp # <<>>
AtConvertFfmpeg(frame) == frame.status = "running" /\ frame.next = 6 /\ frame.tmp = <<>>
AtRaise(frame) == frame.status = "running" /\ frame.next >= 7

\* the next step of a call, whichever it is
LoadAudioSteps(frame, existing) ==
    IF AtPydub(frame) THEN TryPydub(frame, existing)
    ELSE IF AtDirect(frame) THEN TryDirect(frame, existing)
    ELSE IF AtConvertPydub(frame) THEN ConvertPydub(frame, existing)
    ELSE IF AtLoadConverted(frame) THEN LoadConverted(frame, existing)
    ELSE IF AtConvertFfmpeg(frame) THEN ConvertFfmpeg(frame, existing)
    ELSE IF AtRaise(frame) THEN RaiseAllFailed(frame, existing)
    ELSE {}

\* load_audio(file_path) from its first line to its return or raise: every
\* way the call can end, with the filesystem it leaves
RECURSIVE RunToEnd(_)
RunToEnd(results) ==
    IF \A s \in results : s.frame.status # "running"
    THEN results
    ELSE RunToEnd(UNION {IF s.frame.status = "running"
                         THEN LoadAudioSteps(s.frame, s.files) ELSE {s} : s \in results})

load_audio(file_path, existing) ==
    RunToEnd({StepResult(LoadAudioFrame(file_path, FALSE), existing)})

restOfLoad == <<is_initialized, is_loaded, processor, model, loadCount, initFailures, req,
                temp_file_path, staged, pre, resp, log, nRequests, nLoadCalls>>

\* thread t takes one step of its running call
TakeStep(t, results) ==
    /\ pc[t] = "load_audio"
    /\ \E s \in results :
         /\ la' = [la EXCEPT ![t] = s.frame]
         /\ files' = s.files
         /\ pc' = [pc EXCEPT ![t] = IF s.frame.status = "running" THEN "load_audio"
                                    ELSE "la_end"]
    /\ UNCHANGED restOfLoad

LaTryPydub(t) == AtPydub(la[t]) /\ TakeStep(t, TryPydub(la[t], files))

LaTryDirect(t) == AtDirect(la[t]) /\ TakeStep(t, TryDirect(la[t], files))

LaConvertPydub(t) == AtConvertPydub(la[t]) /\ TakeStep(t, ConvertPydub(la[t], files))

LaLoadConverted(t) == AtLoadConverted(la[t]) /\ TakeStep(t, LoadConverted(la[t], files))

LaConvertFfmpeg(t) == AtConvertFfmpeg(la[t]) /\ TakeStep(t, ConvertFfmpeg(la[t], files))

LaRaise(t) == AtRaise(la[t]) /\ TakeStep(t, RaiseAllFailed(la[t], files))

LoadAudioStep(t) ==
    \/ LaTryPydub(t)
    \/ LaTryDirect(t)
    \/ LaConvertPydub(t)
    \/ LaLoadConverted(t)
    \/ LaConvertFfmpeg(t)
    \/ LaRaise(t)

(***************************************************************************)
(* A call of preprocess_audio by thread t: the resampler's behaviour is    *)
(* drawn here, the rest is the function.                                   *)
(***************************************************************************)
NoPre ==
    [status |-> "none", waveform |-> <<>>, sample_rate |-> 0, resampled |-> NoResample,
     out |-> PreRaised("none", <<>>)]

\* what the resampler can do in a call
ResamplerChoices(waveform, sample_rate) ==
    IF sample_rate # TARGET_SAMPLE_RATE
    THEN ResampleOutcomes(Mixdown(waveform), sample_rate)
    ELSE {NoResample}

\* every outcome a call can have
PreprocessResults(waveform, sample_rate) ==
    {preprocess_audio(waveform, sample_rate, rs) : rs \in ResamplerChoices(waveform, sample_rate)}

PreprocessCall(t, waveform, sample_rate) ==
    \E rs \in ResamplerChoices(waveform, sample_rate) :
        pre' = [pre EXCEPT ![t] =
                  [status |-> "done", waveform |-> waveform, sample_rate |-> sample_rate,
                   resampled |-> rs, out |-> preprocess_audio(waveform, sample_rate, rs)]]

(***************************************************************************)
(* The initial state: nothing loaded, no request, an empty temp directory. *)
(***************************************************************************)
NoRequest ==
    [endpoint |-> "none", has_file |-> FALSE, filename |-> <<>>, init_caller |-> "none",
     after_failure |-> FALSE]
NoResponse == [code |-> 0, body |-> "none", has_time |-> FALSE, text |-> FALSE]

InitWith(existing) ==
    /\ is_initialized = FALSE
    /\ is_loaded = FALSE
    /\ processor = "none"
    /\ model = "none"
    /\ loadCount = 0
    /\ initFailures = 0
    /\ files = existing
    /\ pc = [t \in Threads |-> "idle"]
    /\ req = [t \in Threads |-> NoRequest]
    /\ temp_file_path = [t \in Threads |-> <<>>]
    /\ staged = [t \in Threads |-> <<>>]
    /\ la = [t \in Threads |-> NoCall]
    /\ pre = [t \in Threads |-> NoPre]
    /\ resp = [t \in Threads |-> NoResponse]
    /\ log = [t \in Threads |-> <<>>]
    /\ nRequests = 0
    /\ nLoadCalls = 0

(***************************************************************************)
(* Spec: the Flask server, one thread per request (app.run(threaded=True)  *)
(* or a threaded WSGI server).                                             *)
(***************************************************************************)
UploadNames == {<<"rec", ".", "M", "4", "A">>, <<"rec">>, <<>>}

\* request.files of a POST /transcribe: no 'file' part, or one with a name
Forms ==
    {[has_file |-> FALSE, filename |-> <<>>]}
      \cup {[has_file |-> TRUE, filename |-> n] : n \in UploadNames}

\* the requests that arrive: the two GET routes, and POST /transcribe with
\* each form
Requests ==
    {[NoRequest EXCEPT !.endpoint = e] : e \in {"health", "model_info"}}
      \cup {[NoRequest EXCEPT !.endpoint = "transcribe", !.has_file = f.has_file,
                              !.filename = f.filename] : f \in Forms}

Response(code, body, has_time, text) ==
    [code |-> code, body |-> body, has_time |-> has_time, text |-> text]

Logged(t, event) == log' = [log EXCEPT ![t] = Append(@, event)]

\* server.py lines 213-216: run as a script, the server initializes before it
\* serves; a failure there ends the process, which then serves nothing
MainStartup ==
    /\ nRequests = 0 /\ ~is_initialized /\ ~is_loaded
    /\ processor = "none" /\ model = "none"
    /\ is_initialized' = TRUE
    /\ is_loaded' = TRUE
    /\ processor' = "loaded"
    /\ model' = "loaded"
    /\ loadCount' = loadCount + 1
    /\ UNCHANGED <<initFailures, files, pc, req, temp_file_path, staged, la, pre, resp, log,
                   nRequests, nLoadCalls>>

\* a request arrives and a thread takes it
Arrive(t) ==
    /\ pc[t] = "idle"
    /\ nRequests < MaxRequests
    /\ \E r \in Requests : req' = [req EXCEPT ![t] = r]
    /\ nRequests' = nRequests + 1
    /\ pc' = [pc EXCEPT ![t] = "startup"]
    /\ UNCHANGED <<modelVars, files, temp_file_path, staged, la, pre, resp, log, nLoadCalls>>

\* (EnterWithoutInitialize is the mutation that returns without looking.)
\* initialize_server, lines 43-45: return if the flag is set, else go on to
\* load the model; caller is where the call came from, and after_failure
\* notes whether an earlier attempt had raised by then
EnterWithoutInitialize(t, caller, continue_at) ==
    /\ pc' = [pc EXCEPT ![t] = continue_at]
    /\ UNCHANGED req

EnterInitialize(t, caller, continue_at) ==
    IF is_initialized
    THEN /\ pc' = [pc EXCEPT ![t] = continue_at]
         /\ UNCHANGED req
    ELSE /\ pc' = [pc EXCEPT ![t] = "load_model"]
         /\ req' = [req EXCEPT ![t].init_caller = caller,
                                ![t].after_failure = initFailures > 0]

\* startup, the before_request hook (lines 62-65)
Startup(t) ==
    /\ pc[t] = "startup"
    /\ EnterInitialize(t, "startup", "handler")
    /\ UNCHANGED <<modelVars, files, temp_file_path, staged, la, pre, resp, log, nRequests,
                   nLoadCalls>>

\* (LoadModelUnchecked is the mutation without lines 18-19.)
LoadModelUnchecked(t) ==
    /\ pc[t] = "load_model"
    /\ pc' = [pc EXCEPT ![t] = "load_processor"]
    /\ UNCHANGED <<modelVars, files, req, temp_file_path, staged, la, pre, resp, log,
                   nRequests, nLoadCalls>>

\* ModelManager.load_model, lines 18-19
LoadModelCheck(t) ==
    /\ pc[t] = "load_model"
    /\ pc' = [pc EXCEPT ![t] = IF is_loaded THEN "init_flag" ELSE "load_processor"]
    /\ UNCHANGED <<modelVars, files, req, temp_file_path, staged, la, pre, resp, log,
                   nRequests, nLoadCalls>>

\* line 26: WhisperProcessor.from_pretrained returns or raises
LoadProcessor(t) ==
    /\ pc[t] = "load_processor"
    /\ \E ok \in BOOLEAN :
         IF ok
         THEN /\ processor' = "loaded"
              /\ pc' = [pc EXCEPT ![t] = "load_weights"]
         ELSE /\ pc' = [pc EXCEPT ![t] = "init_failed"]
              /\ UNCHANGED processor
    /\ UNCHANGED <<is_initialized, is_loaded, model, loadCount, initFailures, files, req,
                   temp_file_path, staged, la, pre, resp, log, nRequests, nLoadCalls>>

\* lines 27-36: WhisperForConditionalGeneration.from_pretrained returns the
\* model (one more load of the model) or raises
LoadWeights(t) ==
    /\ pc[t] = "load_weights"
    /\ \E ok \in BOOLEAN :
         IF ok
         THEN /\ model' = "loaded"
              /\ loadCount' = loadCount + 1
              /\ pc' = [pc EXCEPT ![t] = "load_flag"]
         ELSE /\ pc' = [pc EXCEPT ![t] = "init_failed"]
              /\ UNCHANGED <<model, loadCount>>
    /\ UNCHANGED <<is_initialized, is_loaded, processor, initFailures, files, req,
                   temp_file_path, staged, la, pre, resp, log, nRequests, nLoadCalls>>

\* (LoadFlagMissing is the mutation without line 38.)
LoadFlagMissing(t) ==
    /\ pc[t] = "load_flag"
    /\ pc' = [pc EXCEPT ![t] = "init_flag"]
    /\ UNCHANGED <<modelVars, files, req, temp_file_path, staged, la, pre, resp, log,
                   nRequests, nLoadCalls>>

\* line 38
LoadFlag(t) ==
    /\ pc[t] = "load_flag"
    /\ is_loaded' = TRUE
    /\ pc' = [pc EXCEPT ![t] = "init_flag"]
    /\ UNCHANGED <<is_initialized, processor, model, loadCount, initFailures, files, req,
                   temp_file_path, staged, la, pre, resp, log, nRequests, nLoadCalls>>

\* initialize_server, line 55, and the return to the caller
InitFlag(t) ==
    /\ pc[t] = "init_flag"
    /\ is_initialized' = TRUE
    /\ pc' = [pc EXCEPT ![t] = IF req[t].init_caller = "startup" THEN "handler"
                               ELSE "tr_validate"]
    /\ UNCHANGED <<is_loaded, processor, model, loadCount, initFailures, files, req,
                   temp_file_path, staged, la, pre, resp, log, nRequests, nLoadCalls>>

\* the load raised: load_model and initialize_server log and re-raise (lines
\* 41-43, 58-60).  Out of the before_request hook the exception reaches
\* Flask, which answers with the 500 handler (lines 205-211); out of
\* transcribe_audio's own call it reaches that function's except clause.
InitFailed(t) ==
    /\ pc[t] = "init_failed"
    /\ IF req[t].init_caller = "startup"
       THEN /\ resp' = [resp EXCEPT ![t] =
                          Response(500, "Internal server error", FALSE, FALSE)]
            /\ pc' = [pc EXCEPT ![t] = "respond"]
       ELSE /\ pc' = [pc EXCEPT ![t] = "except"]
            /\ UNCHANGED resp
    /\ initFailures' = initFailures + 1
    /\ Logged(t, "initialization failed")
    /\ UNCHANGED <<is_initialized, is_loaded, processor, model, loadCount, files, req,
                   temp_file_path, staged, la, pre, nRequests, nLoadCalls>>

\* (TranscribeOutcomesUnchecked is the mutation without lines 47-48.)
TranscribeOutcomesUnchecked == {"text", "inference error"}

\* ModelManager.transcribe (lines 45-87): not loaded, it raises at once;
\* loaded, the inference returns a text or raises
TranscribeOutcomes ==
    IF is_loaded THEN {"text", "inference error"} ELSE {"ValueError: Model not loaded"}

\* health_check (lines 67-94)
HealthCheck(t) ==
    /\ pc[t] = "handler" /\ req[t].endpoint = "health"
    /\ IF is_initialized
       THEN \E o \in TranscribeOutcomes :
              resp' = [resp EXCEPT ![t] =
                         IF o = "text" THEN Response(200, "healthy, model ready", FALSE, FALSE)
                         ELSE Response(500, "unhealthy", FALSE, FALSE)]
       ELSE resp' = [resp EXCEPT ![t] = Response(200, "initializing", FALSE, FALSE)]
    /\ pc' = [pc EXCEPT ![t] = "respond"]
    /\ UNCHANGED <<modelVars, files, req, temp_file_path, staged, la, pre, log, nRequests,
                   nLoadCalls>>

\* model_info (lines 165-185)
ModelInfo(t) ==
    /\ pc[t] = "handler" /\ req[t].endpoint = "model_info"
    /\ resp' = [resp EXCEPT ![t] =
                  IF ~is_initialized THEN Response(503, "Server not initialized", FALSE, FALSE)
                  ELSE Response(200, "model info", FALSE, FALSE)]
    /\ pc' = [pc EXCEPT ![t] = "respond"]
    /\ UNCHANGED <<modelVars, files, req, temp_file_path, staged, la, pre, log, nRequests,
                   nLoadCalls>>

\* transcribe_audio, lines 99-105
TrBegin(t) ==
    /\ pc[t] = "handler" /\ req[t].endpoint = "transcribe"
    /\ temp_file_path' = [temp_file_path EXCEPT ![t] = <<>>]
    /\ EnterInitialize(t, "transcribe", "tr_validate")
    /\ UNCHANGED <<modelVars, files, staged, la, pre, resp, log, nRequests, nLoadCalls>>

\* (RejectionOfMissingPartOnly is the mutation without the filename check.)
RejectionOfMissingPartOnly(form) ==
    IF ~form.has_file THEN "No audio file provided" ELSE "none"

\* lines 107-113: the error a form is rejected with, "none" if it is accepted
Rejection(form) ==
    IF ~form.has_file THEN "No audio file provided"
    ELSE IF form.filename = <<>> THEN "No file selected"
    ELSE "none"

\* lines 107-116: a rejected form is answered 400 (a return inside try runs
\* the finally clause), an accepted one goes on to staging
TrValidate(t) ==
    /\ pc[t] = "tr_validate"
    /\ IF Rejection(req[t]) # "none"
       THEN /\ resp' = [resp EXCEPT ![t] = Response(400, Rejection(req[t]), FALSE, FALSE)]
            /\ pc' = [pc EXCEPT ![t] = "finally"]
       ELSE /\ pc' = [pc EXCEPT ![t] = "save_temp"]
            /\ UNCHANGED resp
    /\ UNCHANGED <<modelVars, files, req, temp_file_path, staged, la, pre, log, nRequests,
                   nLoadCalls>>

\* save_temp_audio, line 218: the suffix of the staged file
StagedSuffix(original_name) ==
    LET file_ext == Lower(SplitExt(original_name)[2])
    IN  IF file_ext = <<>> THEN ExtWav ELSE file_ext

\* line 119 and save_temp_audio (lines 214-227): the temporary file is
\* created, then the upload is written to it, which may raise; only a
\* returned path is assigned to temp_file_path
SaveTemp(t) ==
    /\ pc[t] = "save_temp"
    /\ LET tmp_name == FreshTempPath(files, StagedSuffix(req[t].filename))
       IN  /\ files' = files \cup {tmp_name}
           /\ staged' = [staged EXCEPT ![t] = tmp_name]
           /\ \E saved \in BOOLEAN :
                IF saved
                THEN /\ temp_file_path' = [temp_file_path EXCEPT ![t] = tmp_name]
                     /\ pc' = [pc EXCEPT ![t] = "decode"]
                     /\ Logged(t, "staged")
                ELSE /\ pc' = [pc EXCEPT ![t] = "except"]
                     /\ Logged(t, "staging failed")
                     /\ UNCHANGED temp_file_path
    /\ UNCHANGED <<modelVars, req, la, pre, resp, nRequests, nLoadCalls>>

\* what the caller of load_audio has when the call is over: the returned
\* audio or the raised exception; the rest of the frame is gone
Received(frame) ==
    [NoCall EXCEPT !.status = frame.status, !.audio = frame.audio, !.error = frame.error]

\* line 122: load_audio on the staged file.  The call touches no shared state
\* but files of its own making, so the thread takes it in one step.
LoadAudio(t) ==
    /\ pc[t] = "decode"
    /\ \E s \in load_audio(temp_file_path[t], files) :
         /\ files' = s.files
         /\ la' = [la EXCEPT ![t] = Received(s.frame)]
         /\ IF s.frame.status = "returned"
            THEN /\ pc' = [pc EXCEPT ![t] = "preprocess"]
                 /\ Logged(t, "decoded")
            ELSE /\ pc' = [pc EXCEPT ![t] = "except"]
                 /\ Logged(t, "decode failed")
    /\ UNCHANGED <<modelVars, req, temp_file_path, staged, pre, resp, nRequests, nLoadCalls>>

\* lines 123-125: preprocess_audio runs, and line 125 reads
\* processed_audio.shape[0], which a tensor without dimensions lacks
Preprocess(t) ==
    /\ pc[t] = "preprocess"
    /\ \E out \in PreprocessResults(la[t].audio.waveform, la[t].audio.sample_rate) :
         IF out.status = "returned" /\ out.shape # <<>>
         THEN /\ pc' = [pc EXCEPT ![t] = "transcribe"]
              /\ Logged(t, "normalized")
         ELSE /\ pc' = [pc EXCEPT ![t] = "except"]
              /\ Logged(t, "normalize failed")
    /\ la' = [la EXCEPT ![t] = NoCall]
    /\ UNCHANGED <<modelVars, files, req, temp_file_path, staged, pre, resp, nRequests,
                   nLoadCalls>>

\* lines 128-146: the model transcribes and the text is the response
TranscribeModel(t) ==
    /\ pc[t] = "transcribe"
    /\ \E o \in TranscribeOutcomes :
         IF o = "text"
         THEN /\ resp' = [resp EXCEPT ![t] = Response(200, "transcription", FALSE, TRUE)]
              /\ pc' = [pc EXCEPT ![t] = "finally"]
              /\ Logged(t, "transcribed")
         ELSE /\ pc' = [pc EXCEPT ![t] = "except"]
              /\ Logged(t, "transcribe failed")
              /\ UNCHANGED resp
    /\ UNCHANGED <<modelVars, files, req, temp_file_path, staged, la, pre, nRequests,
                   nLoadCalls>>

\* (ErrorWithoutTime is the mutation that leaves processing_time out.)
ErrorWithoutTime == Response(500, "Transcription failed", FALSE, FALSE)

\* lines 152-158: the error body carries the details and the processing
\* time, and no transcription
TranscriptionFailed == Response(500, "Transcription failed", TRUE, FALSE)

\* lines 148-158: the except clause builds the error response
Except(t) ==
    /\ pc[t] = "except"
    /\ resp' = [resp EXCEPT ![t] = TranscriptionFailed]
    /\ pc' = [pc EXCEPT ![t] = "finally"]
    /\ Logged(t, "error response built")
    /\ la' = [la EXCEPT ![t] = NoCall]
    /\ UNCHANGED <<modelVars, files, req, temp_file_path, staged, pre, nRequests, nLoadCalls>>

\* cleanup_temp_file (lines 229-236).  os.unlink of a file the process itself
\* created in the temporary directory is taken to succeed; a path that no
\* longer exists is left alone (line 232).
cleanup_temp_file(existing, file_path) == existing \ {file_path}

\* lines 160-163: the finally clause, then the function returns
Finally(t) ==
    /\ pc[t] = "finally"
    /\ IF temp_file_path[t] # <<>>
       THEN /\ files' = cleanup_temp_file(files, temp_file_path[t])
            /\ Logged(t, "cleanup")
       ELSE UNCHANGED <<files, log>>
    /\ pc' = [pc EXCEPT ![t] = "respond"]
    /\ UNCHANGED <<modelVars, req, temp_file_path, staged, la, pre, resp, nRequests,
                   nLoadCalls>>

\* the response is sent and the thread is free again
Respond(t) ==
    /\ pc[t] = "respond"
    /\ pc' = [pc EXCEPT ![t] = "idle"]
    /\ req' = [req EXCEPT ![t] = NoRequest]
    /\ temp_file_path' = [temp_file_path EXCEPT ![t] = <<>>]
    /\ staged' = [staged EXCEPT ![t] = <<>>]
    /\ la' = [la EXCEPT ![t] = NoCall]
    /\ resp' = [resp EXCEPT ![t] = NoResponse]
    /\ log' = [log EXCEPT ![t] = <<>>]
    /\ UNCHANGED <<modelVars, files, pre, nRequests, nLoadCalls>>

ThreadStep(t) ==
    \/ Arrive(t)
    \/ Startup(t)
    \/ LoadModelCheck(t)
    \/ LoadProcessor(t)
    \/ LoadWeights(t)
    \/ LoadFlag(t)
    \/ InitFlag(t)
    \/ InitFailed(t)
    \/ HealthCheck(t)
    \/ ModelInfo(t)
    \/ TrBegin(t)
    \/ TrValidate(t)
    \/ SaveTemp(t)
    \/ LoadAudio(t)
    \/ Preprocess(t)
    \/ TranscribeModel(t)
    \/ Except(t)
    \/ Finally(t)
    \/ Respond(t)

Next == MainStartup \/ \E t \in Threads : ThreadStep(t)

Spec == InitWith({}) /\ [][Next]_vars

(***************************************************************************)
(* SpecPre: preprocess_audio applied to every waveform of the bounds.      *)
(***************************************************************************)
Caller == "t1"

ChannelCounts == {1, 2}
InputValues == {Rat(-1, 1), RZero, Rat(1, 2), Rat(2, 1)}
SampleRates == {16000, 32000, 44100}

InputWaveforms ==
    UNION {[1..c -> [1..n -> InputValues]] : c \in ChannelCounts, n \in 0..MaxFrames}

PreDirectCall ==
    /\ pc[Caller] = "idle"
    /\ \E w \in InputWaveforms, sr \in SampleRates : PreprocessCall(Caller, w, sr)
    /\ pc' = [pc EXCEPT ![Caller] = "pre_end"]
    /\ UNCHANGED <<modelVars, files, req, temp_file_path, staged, la, resp, log, nRequests, nLoadCalls>>

PreDirectReturn ==
    /\ pc[Caller] = "pre_end"
    /\ pc' = [pc EXCEPT ![Caller] = "idle"]
    /\ pre' = [pre EXCEPT ![Caller] = NoPre]
    /\ UNCHANGED <<modelVars, files, req, temp_file_path, staged, la, resp, log, nRequests, nLoadCalls>>

NextPre == PreDirectCall \/ PreDirectReturn

SpecPre == InitWith({}) /\ [][NextPre]_vars

(***************************************************************************)
(* SpecLoad: load_audio called on files whose names end in every kind of   *)
(* extension, each decoder free to fail.                                   *)
(***************************************************************************)
DirectExts ==
    {ExtM4a, <<".", "M", "4", "A">>, <<".", "M", "p", "4">>, <<".", "A", "A", "C">>,
     ExtWav, <<".", "W", "A", "V">>, <<".", "m", "p", "3">>, <<>>}

InputPaths ==
    {<<"/", "data", "/", "rec">> \o e : e \in DirectExts}
      \cup {<<"/", "data", ".", "m", "4", "a", "/", "rec">>}

LoadDirectCall ==
    /\ pc[Caller] = "idle"
    /\ nLoadCalls < MaxLoadCalls
    /\ \E file_path \in InputPaths : la' = [la EXCEPT ![Caller] = LoadAudioFrame(file_path, TRUE)]
    /\ pc' = [pc EXCEPT ![Caller] = "load_audio"]
    /\ nLoadCalls' = nLoadCalls + 1
    /\ UNCHANGED <<modelVars, files, req, temp_file_path, staged, pre, resp, log, nRequests>>

LoadDirectReturn ==
    /\ pc[Caller] = "la_end"
    /\ pc' = [pc EXCEPT ![Caller] = "idle"]
    /\ la' = [la EXCEPT ![Caller] = NoCall]
    /\ UNCHANGED <<modelVars, files, req, temp_file_path, staged, pre, resp, log, nRequests, nLoadCalls>>

NextLoad == LoadDirectCall \/ LoadAudioStep(Caller) \/ LoadDirectReturn

SpecLoad == InitWith(InputPaths) /\ [][NextLoad]_vars

(***************************************************************************)
(* SpecModel: ModelManager.load_model and ModelManager.transcribe called    *)
(* one after the other by a single caller; log[Caller] keeps how each call *)
(* ended.                                                                  *)
(***************************************************************************)
\* calls made in one run
MaxModelCalls == 4

\* load_model is called (line 16)
MmLoadCall ==
    /\ pc[Caller] = "idle"
    /\ Len(log[Caller]) < MaxModelCalls
    /\ pc' = [pc EXCEPT ![Caller] = "load_model"]
    /\ UNCHANGED <<modelVars, files, req, temp_file_path, staged, la, pre, resp, log,
                   nRequests, nLoadCalls>>

\* load_model returns: line 19, or the end of the try block (line 39)
MmLoadReturn ==
    /\ pc[Caller] = "init_flag"
    /\ pc' = [pc EXCEPT ![Caller] = "idle"]
    /\ Logged(Caller, "load_model returned")
    /\ UNCHANGED <<modelVars, files, req, temp_file_path, staged, la, pre, resp, nRequests,
                   nLoadCalls>>

\* load_model re-raises what from_pretrained raised (lines 41-43)
MmLoadRaise ==
    /\ pc[Caller] = "init_failed"
    /\ pc' = [pc EXCEPT ![Caller] = "idle"]
    /\ Logged(Caller, "load_model raised")
    /\ UNCHANGED <<modelVars, files, req, temp_file_path, staged, la, pre, resp, nRequests,
                   nLoadCalls>>

\* transcribe is called and ends (lines 45-87); it assigns no attribute
MmTranscribe ==
    /\ pc[Caller] = "idle"
    /\ Len(log[Caller]) < MaxModelCalls
    /\ \E o \in TranscribeOutcomes : Logged(Caller, o)
    /\ UNCHANGED <<modelVars, files, pc, req, temp_file_path, staged, la, pre, resp,
                   nRequests, nLoadCalls>>

NextModel ==
    \/ MmLoadCall
    \/ LoadModelCheck(Caller)
    \/ LoadProcessor(Caller)
    \/ LoadWeights(Caller)
    \/ LoadFlag(Caller)
    \/ MmLoadReturn
    \/ MmLoadRaise
    \/ MmTranscribe

SpecModel == InitWith({}) /\ [][NextModel]_vars

(***************************************************************************)
(* SpecStage: AudioProcessor.save_temp_audio called directly on uploads    *)
(* with every kind of declared name, the caller releasing what it is given.*)
(***************************************************************************)
\* calls made in one run
MaxStageCalls == 2

\* file_storage.filename: extensions in any letter case, known and unknown,
\* none, a trailing dot, two dots, a leading dot only
DeclaredNames ==
    {<<"rec">> \o e : e \in DirectExts}
      \cup {<<"notes", ".", "t", "x", "t">>, <<"rec", ".", "E", "X", "E">>, <<"rec", ".">>,
            <<"rec", ".", "w", "a", "v", ".", "b", "a", "k">>, <<".", "hidden">>, <<>>}

\* save_temp_audio is called with an upload (line 214)
StageDirectCall ==
    /\ pc[Caller] = "idle"
    /\ Len(log[Caller]) < MaxStageCalls
    /\ \E n \in DeclaredNames :
         req' = [req EXCEPT ![Caller] = [NoRequest EXCEPT !.has_file = TRUE, !.filename = n]]
    /\ staged' = [staged EXCEPT ![Caller] = <<>>]
    /\ temp_file_path' = [temp_file_path EXCEPT ![Caller] = <<>>]
    /\ pc' = [pc EXCEPT ![Caller] = "save_temp"]
    /\ UNCHANGED <<modelVars, files, la, pre, resp, log, nRequests, nLoadCalls>>

\* the caller was given the path and releases it with cleanup_temp_file
StageDirectRelease ==
    /\ pc[Caller] = "decode"
    /\ files' = cleanup_temp_file(files, temp_file_path[Caller])
    /\ pc' = [pc EXCEPT ![Caller] = "idle"]
    /\ UNCHANGED <<modelVars, req, temp_file_path, staged, la, pre, resp, log, nRequests,
                   nLoadCalls>>

\* save_temp_audio raised: the caller has no path to release
StageDirectRaised ==
    /\ pc[Caller] = "except"
    /\ pc' = [pc EXCEPT ![Caller] = "idle"]
    /\ UNCHANGED <<modelVars, files, req, temp_file_path, staged, la, pre, resp, log,
                   nRequests, nLoadCalls>>

NextStage == StageDirectCall \/ SaveTemp(Caller) \/ StageDirectRelease \/ StageDirectRaised

SpecStage == InitWith({}) /\ [][NextStage]_vars

(***************************************************************************)
(* Claims about preprocess_audio (SpecPre).                                *)
(***************************************************************************)
PreDone == pre[Caller].status = "done"
PreIn == pre[Caller].waveform
PreOut == pre[Caller].out
NonEmptyInput == Channels(PreIn) >= 1 /\ Frames(PreIn) >= 1

\* the largest absolute value of a non-empty sequence of samples
PeakOf(samples) ==
    LET abs == {RAbs(samples[i]) : i \in DOMAIN samples}
    IN  CHOOSE m \in abs : \A x \in abs : ~RLess(m, x)

OutPeak == PeakOf(PreOut.samples)

\* mono, at the target rate, non-empty, peak <= 1.0
CanonicalInput ==
    /\ PreDone
    /\ Channels(PreIn) = 1 /\ Frames(PreIn) >= 1
    /\ pre[Caller].sample_rate = TARGET_SAMPLE_RATE
    /\ ~RLess(ROne, PeakOf(PreIn[1]))

\* C7 as stated: preprocess_audio returns every canonical input (mono,
\* 16000 Hz, peak <= 1.0, peaks below 1.0 included) with its samples unchanged.
C7_CanonicalUnchanged ==
    CanonicalInput => PreOut.status = "returned" /\ PreOut.samples = PreIn[1]

\* C7 amended: a canonical input is returned, and its samples are unchanged
\* exactly when its peak is 1.0 or it is silent; a peak strictly between 0 and
\* 1 is scaled up to 1.0.
C7_UnchangedIffUnitPeakOrSilent ==
    CanonicalInput =>
        /\ PreOut.status = "returned"
        /\ (PreOut.samples = PreIn[1]) <=> (PeakOf(PreIn[1]) \in {ROne, RZero})
        /\ PeakOf(PreIn[1]) # RZero => OutPeak = ROne

C7_Witness ==
    /\ CanonicalInput
    /\ Frames(PreIn) = 2 /\ PeakOf(PreIn[1]) = ROne /\ PreIn[1][1] # PreIn[1][2]
    /\ PreOut.samples = PreIn[1]

\* C8: a zero-length waveform makes preprocess_audio raise the empty-audio
\* ValueError of the final check, and no other error.
C8_EmptyRaisesValueError ==
    (PreDone /\ Channels(PreIn) >= 1 /\ Frames(PreIn) = 0) =>
        /\ PreOut.status = "raised"
        /\ PreOut.error = "ValueError: Processed audio is empty"

\* what lines 184 and 189 decide for the call
ExpectedStepsBeforeNormalize ==
    (IF Channels(PreIn) > 1 THEN <<"mixdown">> ELSE <<>>)
      \o (IF pre[Caller].sample_rate # TARGET_SAMPLE_RATE THEN <<"resample">> ELSE <<>>)

ExpectedLength ==
    IF pre[Caller].sample_rate # TARGET_SAMPLE_RATE
    THEN ResampleLen(Frames(PreIn), pre[Caller].sample_rate)
    ELSE Frames(PreIn)

\* C9: for every non-empty waveform, mixdown, resampling (only if the rate is
\* not 16000) and peak normalisation are applied in that order, and the result
\* is a one-dimensional sequence of the expected length whose peak is exactly
\* 1.0 unless the mixed, resampled signal is silent.
C9_FlatUnitPeakInOrder ==
    (PreDone /\ NonEmptyInput) =>
        /\ PreOut.status = "returned"
        /\ PreOut.shape = <<ExpectedLength>>
        /\ Len(PreOut.samples) = ExpectedLength
        /\ \/ PreOut.steps = ExpectedStepsBeforeNormalize \o <<"normalize">> /\ OutPeak = ROne
           \/ PreOut.steps = ExpectedStepsBeforeNormalize /\ OutPeak = RZero

\* C10: a silent non-empty input does not fail: the result is all zeros, no
\* division took place, the "silent" warning is logged, and when neither
\* mixdown nor resampling applies the samples are the input's.
C10_SilenceUnchangedWithWarning ==
    (PreDone /\ NonEmptyInput /\ AllZero(PreIn)) =>
        /\ PreOut.status = "returned"
        /\ \A i \in DOMAIN PreOut.samples : PreOut.samples[i] = RZero
        /\ Len(PreOut.samples) = ExpectedLength
        /\ PreOut.steps = ExpectedStepsBeforeNormalize
        /\ PreOut.warnings = {"silent"}
        /\ ExpectedStepsBeforeNormalize = <<>> => PreOut.samples = PreIn[1]

C10_Witness ==
    /\ PreDone /\ AllZero(PreIn) /\ Channels(PreIn) = 2 /\ Frames(PreIn) = 2
    /\ pre[Caller].sample_rate = 44100
    /\ PreOut.status = "returned" /\ PreOut.warnings = {"silent"}

(***************************************************************************)
(* Claims about load_audio (SpecLoad).                                     *)
(***************************************************************************)
Call == la[Caller]
CallEnded == pc[Caller] = "la_end"
MethodsTried == [i \in DOMAIN Call.attempts |-> Call.attempts[i].method]

\* the path ends in one of the M4A/MP4/AAC extensions, in any letter case
EndsWith(p, e) == Len(p) >= Len(e) /\ SubSeq(p, Len(p) - Len(e) + 1, Len(p)) = e

InM4aFamilyAnyCase(p) ==
    \E e \in {ExtM4a, ExtMp4, ExtAac, <<".", "M", "4", "A">>, <<".", "M", "p", "4">>,
              <<".", "A", "A", "C">>} : EndsWith(p, e)

\* the strategies that apply to a path, in priority order
Applicable(p) == IF InM4aFamilyAnyCase(p) THEN <<1, 2, 3, 4, 5, 6>> ELSE <<2, 3, 4, 5, 6>>

\* C3: when load_audio has returned or raised, no intermediate WAV file that
\* the call created is left on the filesystem.
C3_NoIntermediateFileLeft ==
    CallEnded => Call.made \cap files = {}

\* C4: at every moment of a call the strategies attempted so far are the first
\* ones of the applicable list, in order (strategy 1 applies exactly to the
\* M4A/MP4/AAC extensions in any letter case); every attempt before the last
\* failed; a call that returned returns the audio of its last attempt, which
\* succeeded; and a success is the last attempt of the call.
C4_OrderedFallbackFirstSuccess ==
    Call.status # "none" =>
        /\ Len(MethodsTried) <= Len(Applicable(Call.path))
        /\ MethodsTried = SubSeq(Applicable(Call.path), 1, Len(MethodsTried))
        /\ \A i \in DOMAIN Call.attempts :
             Call.attempts[i].ok => (i = Len(Call.attempts) /\ Call.status = "returned")
        /\ Call.status = "returned" =>
             /\ Call.attempts # <<>>
             /\ Call.attempts[Len(Call.attempts)].ok
             /\ Call.audio = Call.attempts[Len(Call.attempts)].audio

C4_Witness ==
    /\ CallEnded /\ Call.status = "returned"
    /\ EndsWith(Call.path, <<".", "M", "4", "A">>)
    /\ MethodsTried = <<1, 2, 3>>
    /\ Call.audio = AudioStereo

\* C5: load_audio raises exactly when every applicable strategy was attempted
\* and failed; the exception then carries the path and says that all methods
\* were tried; nothing is raised while a strategy is untried.
C5_FailsIffAllStrategiesFailed ==
    /\ Call.status = "raised" <=>
         /\ CallEnded
         /\ MethodsTried = Applicable(Call.path)
         /\ \A i \in DOMAIN Call.attempts : ~Call.attempts[i].ok
    /\ Call.status = "raised" =>
         /\ Call.error.path = Call.path
         /\ Call.error.message = "Failed to load audio file. Tried all available methods."
    /\ Call.status # "raised" => Call.error = NoError

C5_Witness ==
    /\ CallEnded /\ Call.status = "raised"
    /\ MethodsTried = <<1, 2, 3, 4, 5, 6>>
    /\ Call.error.path = Call.path

\* C6: when the ffmpeg step fails because the binary is missing or the
\* timeout expired, load_audio fails with an error that names that cause,
\* not with the generic all-methods-failed error.
C6_FfmpegCauseSurfaced ==
    (/\ CallEnded /\ Call.status = "raised"
     /\ Call.attempts # <<>>
     /\ Call.attempts[Len(Call.attempts)].method = 6
     /\ Call.attempts[Len(Call.attempts)].why \in {"timed out", "ffmpeg not found"})
      => /\ Call.error.message = Call.attempts[Len(Call.attempts)].why
         /\ Call.error.message # AllMethodsFailed(Call.path).message

(***************************************************************************)
(* Claims about the server (Spec).                                         *)
(***************************************************************************)
\* C1: however the threads that find the model not loaded interleave, the
\* model is loaded (from_pretrained returns it) once in all.
C1_ModelLoadedOnce ==
    /\ loadCount <= 1
    /\ is_loaded => loadCount = 1

\* C2: when transcribe_audio has returned, whatever the outcome, the file
\* that save_temp_audio created for the request is no longer on the filesystem.
C2_StagedFileGoneAfterReturn ==
    \A t \in Threads :
        (pc[t] = "respond" /\ staged[t] # <<>>) => staged[t] \notin files

\* thread t has built the answer to a request for endpoint e and is about to
\* send it
Answering(t, e) == pc[t] = "respond" /\ req[t].endpoint = e

\* C11: a /model/info request answered while the server is not Ready
\* (is_initialized false, a failed initialization attempt included) gets 503,
\* and a 200 is given only when Ready.
C11_ModelInfo503UnlessReady ==
    \A t \in Threads :
        Answering(t, "model_info") =>
            /\ ~is_initialized => resp[t].code = 503
            /\ resp[t].code = 200 => is_initialized

\* C12: /health answers 200 while the server is not Ready and when the probe
\* succeeds, and 500 exactly when the server is Ready and the probe failed.
C12_Health500OnlyOnProbeFailure ==
    \A t \in Threads :
        Answering(t, "health") =>
            /\ ~is_initialized => resp[t].code = 200
            /\ resp[t].code = 500 <=> (is_initialized /\ resp[t].body = "unhealthy")

\* where a thread is while a route's handler runs
HandlerPcs ==
    {"handler", "tr_validate", "save_temp", "decode", "preprocess", "transcribe", "except",
     "finally"}

\* C13: a handler runs only when the server is Ready, a request that finds the
\* server not Ready at the before_request hook goes on to an initialization
\* attempt, a failed attempt changes neither flag and ends in an answer (the
\* server goes on serving), and is_initialized never goes back to false, so
\* the change from not Ready to Ready happens at most once.
C13_InitBeforeHandlerRetryOnce ==
    /\ [](\A t \in Threads : pc[t] \in HandlerPcs => is_initialized)
    /\ [][\A t \in Threads :
            /\ (pc[t] = "startup" /\ ~is_initialized /\ pc'[t] # pc[t])
                  => pc'[t] = "load_model"
            /\ (pc[t] = "init_failed" /\ pc'[t] # pc[t])
                  => /\ is_initialized' = is_initialized /\ is_loaded' = is_loaded
                     /\ pc'[t] = "respond" /\ resp'[t].code = 500]_vars
    /\ [][is_initialized => is_initialized']_vars

\* a request that arrived after an initialization had failed made its own
\* attempt, which succeeded, and its handler is about to run
C13_Witness ==
    \E t \in Threads :
        /\ pc[t] = "handler" /\ req[t].after_failure
        /\ initFailures >= 1 /\ is_initialized

\* a POST /transcribe without a usable upload
NoUpload(t) == ~req[t].has_file \/ req[t].filename = <<>>

\* the request's own initialization attempt raised (line 59 logs it)
InitRaised(t) == \E i \in DOMAIN log[t] : log[t][i] = "initialization failed"

\* what a request without a usable upload never does: nothing is staged and
\* no stage of the pipeline has run
NothingStagedNorRun(t) ==
    /\ staged[t] = <<>> /\ temp_file_path[t] = <<>>
    /\ \A i \in DOMAIN log[t] : log[t][i] = "initialization failed"
    /\ pc[t] \notin {"save_temp", "decode", "preprocess", "transcribe", "except"}

\* C14 as stated: every transcribe request without a 'file' part or with an
\* empty filename is answered 400 ("No audio file provided" for the missing
\* part), nothing having been staged or run for it.
C14_NoUploadRejected400 ==
    \A t \in Threads :
        (Answering(t, "transcribe") /\ NoUpload(t)) =>
            /\ resp[t].code = 400
            /\ ~req[t].has_file => resp[t].body = "No audio file provided"
            /\ NothingStagedNorRun(t)

\* C14 amended: such a request is answered 400 (with the bodies of lines 109
\* and 113) when its before_request initialization did not raise, and 500 by
\* Flask's error handler when it raised; in both cases, at every moment of
\* the request, nothing is staged and no pipeline stage runs.
C14_NoUploadRejected400OnceInitialized ==
    \A t \in Threads :
        (req[t].endpoint = "transcribe" /\ NoUpload(t)) =>
            /\ NothingStagedNorRun(t)
            /\ pc[t] = "respond" =>
                 IF InitRaised(t)
                 THEN resp[t].code = 500 /\ resp[t].body = "Internal server error"
                 ELSE /\ resp[t].code = 400
                      /\ resp[t].body = IF ~req[t].has_file THEN "No audio file provided"
                                        ELSE "No file selected"

C14_Witness ==
    \E t \in Threads :
        /\ Answering(t, "transcribe") /\ req[t].has_file /\ req[t].filename = <<>>
        /\ resp[t].code = 400 /\ files = {}

\* the events a request logs when one of its four stages fails
StageFailures == {"staging failed", "decode failed", "normalize failed", "transcribe failed"}

StageFailed(t) == \E i \in DOMAIN log[t] : log[t][i] \in StageFailures

\* C15: a transcribe request is answered 200 with the text only after
\* staging, decode, normalize and transcription all succeeded, in that order;
\* when one of them failed the answer is 500 with an error body that carries
\* the processing time and no transcription text.
C15_TextOnlyAfterAllStages ==
    \A t \in Threads :
        Answering(t, "transcribe") =>
            /\ (resp[t].code = 200 \/ resp[t].text) =>
                 /\ resp[t] = Response(200, "transcription", FALSE, TRUE)
                 /\ log[t] = <<"staged", "decoded", "normalized", "transcribed", "cleanup">>
            /\ StageFailed(t) =>
                 /\ resp[t].code = 500 /\ resp[t].body = "Transcription failed"
                 /\ resp[t].has_time /\ ~resp[t].text

\* a request whose upload was staged and decoded and whose normalisation
\* failed is being answered
C15_Witness ==
    \E t \in Threads :
        /\ Answering(t, "transcribe")
        /\ log[t] = <<"staged", "decoded", "normalize failed", "error response built", "cleanup">>
        /\ resp[t].code = 500

(***************************************************************************)
(* Claims about ModelManager (SpecModel).                                  *)
(***************************************************************************)
\* how the calls made so far ended, in order
Calls == log[Caller]

Ran(outcomes) == \E i \in DOMAIN Calls : Calls[i] \in outcomes

\* a step that is a whole call of transcribe
TranscribeCalled == pc[Caller] = "idle" /\ pc'[Caller] = "idle" /\ Len(log'[Caller]) = Len(Calls) + 1

\* C16: as long as no load has completed (is_loaded is false), every
\* transcribe call has ended with the not-loaded ValueError, none has run the
\* inference, and a transcribe call changes nothing of the manager: not
\* is_loaded, model or processor, and no load is executed.
C16_TranscribeBeforeLoadFailsFast ==
    /\ [](~is_loaded => ~Ran({"text", "inference error"}))
    /\ [][(TranscribeCalled /\ ~is_loaded) =>
            /\ log'[Caller][Len(Calls) + 1] = "ValueError: Model not loaded"
            /\ UNCHANGED <<is_loaded, processor, model, loadCount>>]_vars

\* transcribe was called on a fresh manager, and again after a load that
\* raised once the processor was set
C16_Witness ==
    /\ Calls = <<"ValueError: Model not loaded", "load_model raised",
                 "ValueError: Model not loaded">>
    /\ processor = "loaded" /\ ~is_loaded

\* C17: once load_model has succeeded nothing of the manager changes any
\* more and no load is executed, whatever is called and however often; a
\* load_model call that raised leaves is_loaded false (it is true only after
\* a call that returned), and a call that finds it false starts a load.
C17_LoadOnceIdempotent ==
    /\ [][is_loaded => UNCHANGED <<is_loaded, processor, model, loadCount>>]_vars
    /\ []((is_loaded /\ pc[Caller] = "idle") => Ran({"load_model returned"}))
    /\ []((pc[Caller] = "idle" /\ Calls # <<>> /\ ~Ran({"load_model returned"})) => ~is_loaded)
    /\ [][(pc[Caller] = "load_model" /\ pc'[Caller] # "load_model") =>
            pc'[Caller] = IF is_loaded THEN "init_flag" ELSE "load_processor"]_vars

\* a load that raised, one that succeeded, and two more calls after it
C17_Witness ==
    /\ Calls = <<"load_model raised", "load_model returned", "load_model returned",
                 "load_model returned">>
    /\ is_loaded /\ loadCount = 1

(***************************************************************************)
(* More claims about the server (Spec).                                    *)
(***************************************************************************)
\* thread t holds a staged file: save_temp_audio returned its path and the
\* finally clause has not run yet
HoldsStaged(t) ==
    /\ temp_file_path[t] # <<>>
    /\ pc[t] \in {"decode", "preprocess", "transcribe", "except", "finally"}

\* thread t takes the step
Steps(t) == pc'[t] # pc[t]

\* C18: the staged files of requests in progress are the requests' own: two
\* requests that hold a staged file hold different paths, the path a request
\* is given is the one created for it and is new on the filesystem, a held
\* file exists until its own request's finally clause, and a step of a request
\* deletes no file but, in its finally clause, the one it staged.
C18_OwnStagedFile ==
    /\ [](\A t, u \in Threads :
            (t # u /\ HoldsStaged(t) /\ HoldsStaged(u)) => temp_file_path[t] # temp_file_path[u])
    /\ [](\A t \in Threads :
            HoldsStaged(t) => temp_file_path[t] = staged[t] /\ staged[t] \in files)
    /\ [][\A t \in Threads :
            /\ (Steps(t) /\ pc[t] = "save_temp") => staged'[t] \notin files
            /\ Steps(t) =>
                 /\ files \ files' \subseteq {staged[t]}
                 /\ files \ files' # {} => pc[t] = "finally"]_vars

\* two requests with uploads of the same name hold their files together
C18_Witness ==
    \E t, u \in Threads :
        /\ t # u /\ HoldsStaged(t) /\ HoldsStaged(u)
        /\ req[t].filename = req[u].filename
        /\ pc[t] = "finally" /\ pc[u] = "transcribe"

\* the except clause of thread t's request has built the error body
ErrorBuilt(t) == \E i \in DOMAIN log[t] : log[t][i] = "error response built"

\* C19: whenever the error body of a failed transcribe request exists (built,
\* and later emitted), the file staged for the request has already been
\* released.
C19_ReleasedBeforeErrorBuilt ==
    \A t \in Threads :
        (ErrorBuilt(t) /\ staged[t] # <<>>) => staged[t] \notin files

(***************************************************************************)
(* Claims about save_temp_audio (SpecStage).                               *)
(***************************************************************************)
\* the extensions of audio files
AudioExts ==
    {ExtWav, ExtM4a, ExtMp4, ExtAac, <<".", "m", "p", "3">>, <<".", "f", "l", "a", "c">>,
     <<".", "o", "g", "g">>}

\* save_temp_audio has created the file for the call in progress
StagedNow == pc[Caller] \in {"decode", "except"} /\ staged[Caller] # <<>>

DeclaredExt == Lower(SplitExt(req[Caller].filename)[2])

\* C20: the staged file's extension is the lowercased extension of the
\* declared name when that is an audio extension, and .wav in every other
\* case: no extension, or one that is not an audio extension.
C20_AudioExtensionOrWav ==
    StagedNow =>
        SplitExt(staged[Caller])[2] = IF DeclaredExt \in AudioExts THEN DeclaredExt ELSE ExtWav

(***************************************************************************)
(* The flags of the server (Spec).                                         *)
(***************************************************************************)
\* C21: in every reachable state is_initialized implies that the manager is
\* loaded, with model and processor set, and no step takes is_initialized or
\* is_loaded from true back to false.
C21_InitializedImpliesLoaded ==
    /\ [](is_initialized => (is_loaded /\ model # "none" /\ processor # "none"))
    /\ [][(is_initialized => is_initialized') /\ (is_loaded => is_loaded')]_vars

\* the server is initialized by one request while another, which found it
\* uninitialized, is still inside load_model
C21_Witness ==
    \E t, u \in Threads :
        /\ t # u /\ is_initialized
        /\ pc[t] = "handler"
        /\ pc[u] \in {"load_processor", "load_weights", "load_flag"}
====
